---- MODULE Spec2Model ----
(***************************************************************************)
(* Painel de Producao por Vistoriador (app_vistoriador.py).                *)
(*                                                                         *)
(* The script is re-run top to bottom on every user interaction.  One run  *)
(* ("pass") loads the chosen sheet(s), normalizes and classifies the       *)
(* records, resets the filters when the source-set token changed, applies  *)
(* the filters, aggregates per inspector, joins the goals and resolves the *)
(* ranking day.  The only state that survives a pass is st.session_state   *)
(* and the value of the source selectbox.                                  *)
(*                                                                         *)
(* Text cells are sequences of characters (one-character strings); the     *)
(* accented characters are written "O'" (O acute), "o'" (o acute) and      *)
(* "--" (em dash).  Dates are integers YYYYMMDD, so integer order is date  *)
(* order; NaT is 0.  A missing cell (NaN) is the one-element sequence      *)
(* <<"NaN">>, which is no text of the alphabet.                            *)
(***************************************************************************)
EXTENDS Integers, Sequences, FiniteSets, TLC

VARIABLES
    arquivos,       \* the sheets of the Drive folder, most recently modified first
    escolha,        \* the selectbox: 0 = "TODOS OS ARQUIVOS (juntar)", i = arquivos[i]
    session_state,  \* st.session_state
    out             \* what the last pass computed and rendered

vars == <<arquivos, escolha, session_state, out>>

-----------------------------------------------------------------------------
(* Bounds of the model *)

MaxRows == 2        \* rows of the May sheet in the record worlds
MaxMetas == 2       \* rows of a METAS sheet in the goal worlds
MaxSessRows == 2    \* rows of the May sheet in the session worlds
MaxRank == 7        \* rows of one TIPO handed to the monthly ranking

-----------------------------------------------------------------------------
(* Text *)

NaN == <<"NaN">>
NaT == 0

\* the characters of the model in code point order
CodePoints ==
    <<" ", "1", "2", "A", "B", "C", "D", "E", "F", "G", "I", "J", "L", "M", "N",
      "O", "P", "S", "T", "U", "V", "X",
      "a", "b", "c", "d", "e", "g", "i", "j", "l", "m", "n", "o", "u", "v",
      "O'", "o'", "--">>

ord(c) == CHOOSE i \in 1..Len(CodePoints) : CodePoints[i] = c

Whitespace == {" "}

upper_char(c) ==
    CASE c = "a" -> "A" [] c = "b" -> "B" [] c = "c" -> "C" [] c = "d" -> "D"
      [] c = "e" -> "E" [] c = "g" -> "G" [] c = "i" -> "I" [] c = "j" -> "J"
      [] c = "l" -> "L" [] c = "m" -> "M" [] c = "n" -> "N" [] c = "o" -> "O"
      [] c = "u" -> "U" [] c = "v" -> "V" [] c = "o'" -> "O'"
      [] OTHER -> c

upper(s) == [i \in 1..Len(s) |-> upper_char(s[i])]

RECURSIVE lstrip(_)
lstrip(s) == IF s # <<>> /\ Head(s) \in Whitespace THEN lstrip(Tail(s)) ELSE s

RECURSIVE rstrip(_)
rstrip(s) ==
    IF s # <<>> /\ s[Len(s)] \in Whitespace THEN rstrip(SubSeq(s, 1, Len(s) - 1)) ELSE s

strip(s) == rstrip(lstrip(s))

\* str(x) of a cell: NaN prints as "nan"
astype_str(x) == IF x = NaN THEN <<"n", "a", "n">> ELSE x

\* lexicographic order of two texts by code point
RECURSIVE str_lt(_, _)
str_lt(a, b) ==
    IF b = <<>> THEN FALSE
    ELSE IF a = <<>> THEN TRUE
    ELSE IF Head(a) = Head(b) THEN str_lt(Tail(a), Tail(b))
    ELSE ord(Head(a)) < ord(Head(b))

\* a normalization that upper-cases and keeps the surrounding blanks
_upper_only(x) == IF x # NaN THEN upper(x) ELSE <<>>

\* str(x).upper().strip() if pd.notna(x) else ""
_upper_strip(x) == IF x # NaN THEN strip(upper(x)) ELSE <<>>

-----------------------------------------------------------------------------
(* Dates *)

\* a DATA cell is a text in one of the layouts below; day is the date it spells
DateFormats == {"%d/%m/%Y", "%Y-%m-%d", "%d-%m-%Y"}

NaNDate == [fmt |-> "NaN", day |-> 0]
EmptyDate == [fmt |-> "", day |-> 0]

parse_date_any(x) ==
    IF x.fmt = "NaN" \/ x.fmt = "" THEN NaT
    ELSE IF x.fmt \in DateFormats THEN x.day
    ELSE IF x.fmt = "generic" THEN x.day
    ELSE NaT

isdate(d) == d # NaT

\* the calendar of the model: 2024-04-29 Mon, 2024-04-30 Tue, 2024-05-03 Fri,
\* 2024-05-04 Sat, 2024-05-06 Mon
weekday(d) ==
    CASE d = 20240429 -> 0 [] d = 20240430 -> 1 [] d = 20240503 -> 4
      [] d = 20240504 -> 5 [] d = 20240506 -> 0

month_of(d) == d \div 100

-----------------------------------------------------------------------------
(* Load: conectar_gsheets / ler_aba_metas / the load loop / pd.concat *)

Columns == {"UNIDADE", "DATA", "CHASSI", "PERITO", "DIGITADOR"}

\* the DataFrame of one sheet: the cells of the columns the sheet has
RawRow(a, i) ==
    LET r == a.rows[i] IN
    [UNIDADE   |-> IF "UNIDADE" \in a.cols THEN r.UNIDADE ELSE NaN,
     DATA      |-> IF "DATA" \in a.cols THEN r.DATA ELSE NaNDate,
     CHASSI    |-> IF "CHASSI" \in a.cols THEN r.CHASSI ELSE NaN,
     PERITO    |-> IF "PERITO" \in a.cols THEN r.PERITO ELSE NaN,
     DIGITADOR |-> IF "DIGITADOR" \in a.cols THEN r.DIGITADOR ELSE NaN,
     SRC_ID    |-> a.id]

\* pd.to_numeric(errors="coerce").fillna(0).astype(int) of a METAS cell
to_int(c) == IF c.num THEN c.val ELSE 0

ler_aba_metas(a) ==
    [i \in 1..Len(a.metas) |->
        LET m == a.metas[i] IN
        [VISTORIADOR |-> strip(upper(m.VISTORIADOR)),
         UNIDADE     |-> strip(upper(m.UNIDADE)),
         TIPO        |-> strip(upper(m.TIPO)),
         META_MENSAL |-> to_int(m.META_MENSAL),
         DIAS_UTEIS  |-> to_int(m.DIAS_UTEIS),
         SRC_ID      |-> a.id]]

EmptyLoad ==
    [stopped |-> FALSE, cols |-> {}, df_raw |-> <<>>, df_metas |-> <<>>,
     sheet_ids_usados |-> <<>>]

\* one sheet added to df_raw_list / metas_list / sheet_ids_usados
Append_one(acc, a) ==
    LET has == Len(a.rows) > 0 IN
    [stopped |-> FALSE,
     cols |-> IF has THEN acc.cols \cup a.cols ELSE acc.cols,
     df_raw |-> IF has THEN acc.df_raw \o [i \in 1..Len(a.rows) |-> RawRow(a, i)]
                ELSE acc.df_raw,
     df_metas |-> acc.df_metas \o ler_aba_metas(a),
     sheet_ids_usados |-> IF has THEN Append(acc.sheet_ids_usados, a.id)
                          ELSE acc.sheet_ids_usados]

\* conectar_gsheets: a sheet that cannot be opened ends the run (st.stop());
\* the stop is no Exception, so the load loop's except clause does not see it
_load_one(acc, a) ==
    IF a.fetch_ok THEN Append_one(acc, a) ELSE [acc EXCEPT !.stopped = TRUE]

RECURSIVE load_todos(_, _, _)
load_todos(arqs, i, acc) ==
    IF i > Len(arqs) \/ acc.stopped THEN acc
    ELSE load_todos(arqs, i + 1, _load_one(acc, arqs[i]))

load(arqs, esc) ==
    IF esc = 0 THEN load_todos(arqs, 1, EmptyLoad)
    ELSE _load_one(EmptyLoad, arqs[esc])

-----------------------------------------------------------------------------
(* Limpeza e padronizacao / Revistoria *)

\* the required-column check on the concatenated frame
required_ok(cols) ==
    /\ "UNIDADE" \in cols
    /\ "DATA" \in cols
    /\ "CHASSI" \in cols
    /\ ("PERITO" \in cols \/ "DIGITADOR" \in cols)

VISTORIADOR_of(r, cols) ==
    IF "PERITO" \in cols /\ "DIGITADOR" \in cols
    THEN IF strip(astype_str(r.PERITO)) # <<>>
         THEN _upper_strip(r.PERITO)
         ELSE _upper_strip(r.DIGITADOR)
    ELSE IF "PERITO" \in cols THEN _upper_strip(r.PERITO)
    ELSE _upper_strip(r.DIGITADOR)

\* df after "Normalizar" and "VISTORIADOR"; idx is the row's place in df_raw
normalizar(df_raw, cols) ==
    [i \in 1..Len(df_raw) |->
        LET r == df_raw[i] IN
        [UNIDADE     |-> _upper_strip(r.UNIDADE),
         CHASSI      |-> _upper_strip(r.CHASSI),
         DATA        |-> parse_date_any(r.DATA),
         VISTORIADOR |-> VISTORIADOR_of(r, cols),
         SRC_ID      |-> r.SRC_ID,
         idx         |-> i]]

\* an order that puts the null dates first
sort_key_nulls_first(a, b) ==
    IF a.DATA # b.DATA
    THEN IF a.DATA = NaT THEN TRUE
         ELSE IF b.DATA = NaT THEN FALSE
         ELSE a.DATA < b.DATA
    ELSE str_lt(a.CHASSI, b.CHASSI)

\* the order of sort_values(["__DATA__", CHASSI]): dates ascending with the
\* null dates last, then CHASSI ascending
sort_key_lt(a, b) ==
    IF a.DATA # b.DATA
    THEN IF a.DATA = NaT THEN FALSE
         ELSE IF b.DATA = NaT THEN TRUE
         ELSE a.DATA < b.DATA
    ELSE str_lt(a.CHASSI, b.CHASSI)

\* x put after every row that is not greater than it: the sort is stable
RECURSIVE insert_by_key(_, _)
insert_by_key(s, x) ==
    IF s = <<>> THEN <<x>>
    ELSE IF sort_key_lt(x, Head(s)) THEN <<x>> \o s
    ELSE <<Head(s)>> \o insert_by_key(Tail(s), x)

RECURSIVE sort_prefix(_, _)
sort_prefix(df, n) ==
    IF n = 0 THEN <<>> ELSE insert_by_key(sort_prefix(df, n - 1), df[n])

sort_values(df) == sort_prefix(df, Len(df))

\* groupby(CHASSI).cumcount() and IS_REV
cumcount(df, i) == Cardinality({j \in 1..(i - 1) : df[j].CHASSI = df[i].CHASSI})

IS_REV_of(ordem) == IF ordem >= 1 THEN 1 ELSE 0

Revistoria(df) ==
    LET s == sort_values(df) IN
    [i \in 1..Len(s) |->
        [UNIDADE     |-> s[i].UNIDADE,
         CHASSI      |-> s[i].CHASSI,
         DATA        |-> s[i].DATA,
         VISTORIADOR |-> s[i].VISTORIADOR,
         SRC_ID      |-> s[i].SRC_ID,
         idx         |-> s[i].idx,
         ORD         |-> cumcount(s, i),
         IS_REV      |-> IS_REV_of(cumcount(s, i))]]

BAN_UNIDS ==
    {<<"P", "O", "S", "T", "O", " ", "C", "O'", "D", "I", "G", "O">>,
     <<"P", "O", "S", "T", "O", " ", "C", "O", "D", "I", "G", "O">>,
     <<"C", "O'", "D", "I", "G", "O">>,
     <<"C", "O", "D", "I", "G", "O">>,
     <<>>,
     <<"--">>,
     <<"N", "A", "N">>}

not_banned(r) == r.UNIDADE \notin BAN_UNIDS

remove_ban(df) == SelectSeq(df, not_banned)

\* df as the filters see it
classificar(df_raw, cols) == remove_ban(Revistoria(normalizar(df_raw, cols)))

Range(s) == {s[i] : i \in 1..Len(s)}

-----------------------------------------------------------------------------
(* Reset de filtros ao trocar de arquivo / Estado *)

None == <<"None">>

ss_get(ss, k, default) == IF k \in DOMAIN ss THEN ss[k] ELSE default

ss_set(ss, k, v) == [x \in DOMAIN ss \cup {k} |-> IF x = k THEN v ELSE ss[x]]

setdefault(ss, k, v) == IF k \in DOMAIN ss THEN ss ELSE ss_set(ss, k, v)

unidades_opts(df) == {r.UNIDADE : r \in Range(df)}

vist_opts(df) == {r.VISTORIADOR : r \in Range(df)} \ {<<>>}

datas_validas(df) == {r.DATA : r \in {x \in Range(df) : isdate(x.DATA)}}

Min(S) == CHOOSE x \in S : \A y \in S : x <= y
Max(S) == CHOOSE x \in S : \A y \in S : x >= y

date_today == 20240506

token_of(sheet_ids_usados) ==
    IF sheet_ids_usados = <<>> THEN <<"ALL">> ELSE sheet_ids_usados

_reset_filters_for_df(ss, df_base, sheet_ids_usados) ==
    LET dv   == datas_validas(df_base)
        dmin == IF dv # {} THEN Min(dv) ELSE date_today
        dmax == IF dv # {} THEN Max(dv) ELSE date_today
        s1   == ss_set(ss, "unids_tmp", unidades_opts(df_base))
        s2   == ss_set(s1, "vists_tmp", {})
        s3   == ss_set(s2, "dt_ini", dmin)
        s4   == ss_set(s3, "dt_fim", dmax)
    IN  ss_set(s4, "__data_token__", token_of(sheet_ids_usados))

\* a token check that resets the filters in every pass
reset_sempre(ss, df, sheet_ids_usados) == _reset_filters_for_df(ss, df, sheet_ids_usados)

\* "se mudou o arquivo, reseta datas/filtros"
reset_if_changed(ss, df, sheet_ids_usados) ==
    IF ss_get(ss, "__data_token__", None) # token_of(sheet_ids_usados)
    THEN _reset_filters_for_df(ss, df, sheet_ids_usados)
    ELSE ss

_init_state(ss) ==
    setdefault(setdefault(setdefault(setdefault(ss,
        "unids_tmp", {}), "vists_tmp", {}), "dt_ini", NaT), "dt_fim", NaT)

-----------------------------------------------------------------------------
(* Aplicar filtros aos dados *)

in_unids(ss, r) == ss["unids_tmp"] = {} \/ r.UNIDADE \in ss["unids_tmp"]

\* a null date compares False with both ends of the range
in_dates(ss, r) ==
    (ss["dt_ini"] # NaT /\ ss["dt_fim"] # NaT)
        => (r.DATA # NaT /\ r.DATA >= ss["dt_ini"] /\ r.DATA <= ss["dt_fim"])

in_vists(ss, r) == ss["vists_tmp"] = {} \/ r.VISTORIADOR \in ss["vists_tmp"]

apply_filters(df, ss) ==
    LET keep(r) == in_unids(ss, r) /\ in_dates(ss, r) /\ in_vists(ss, r)
    IN  SelectSeq(df, keep)

-----------------------------------------------------------------------------
(* Resumo por Vistoriador *)

\* the texts of S in ascending order (groupby sorts its keys)
RECURSIVE sorted(_)
sorted(S) ==
    IF S = {} THEN <<>>
    ELSE LET m == CHOOSE x \in S : \A y \in S : y = x \/ str_lt(x, y)
         IN  <<m>> \o sorted(S \ {m})

RECURSIVE sum_IS_REV(_)
sum_IS_REV(s) == IF s = <<>> THEN 0 ELSE Head(s).IS_REV + sum_IS_REV(Tail(s))

rows_of(view, v) == SelectSeq(view, LAMBDA r : r.VISTORIADOR = v)

\* a net count that adds the re-inspections instead of taking them away
LIQUIDO_soma(vistorias, revistorias) == vistorias + revistorias

\* grp["LIQUIDO"] = grp["VISTORIAS"] - grp["REVISTORIAS"]
LIQUIDO_of(vistorias, revistorias) == vistorias - revistorias

groupby_VISTORIADOR(view) ==
    LET keys == sorted({r.VISTORIADOR : r \in Range(view)}) IN
    [k \in 1..Len(keys) |->
        LET rs == rows_of(view, keys[k]) IN
        [VISTORIADOR |-> keys[k],
         VISTORIAS   |-> Len(rs),
         REVISTORIAS |-> sum_IS_REV(rs),
         DIAS_ATIVOS |-> Cardinality({r.DATA : r \in Range(rs)} \ {NaT}),
         UNIDADES    |-> Cardinality({r.UNIDADE : r \in Range(rs)}),
         LIQUIDO     |-> LIQUIDO_of(Len(rs), sum_IS_REV(rs))]]

\* a test that takes every dated record for a workday
_is_any_day(d) == isdate(d)

\* isinstance(d, date) and d.weekday() < 5
_is_workday(d) == isdate(d) /\ weekday(d) < 5

\* the table VISTORIADOR -> DIAS_PASSADOS, as a set of rows
_calc_wd_passados(df_view) ==
    LET masked == {r \in Range(df_view) : _is_workday(r.DATA)} IN
    IF df_view = <<>> THEN {}
    ELSE IF masked = {}
    THEN {[VISTORIADOR |-> v, DIAS_PASSADOS |-> 0] :
            v \in {r.VISTORIADOR : r \in Range(df_view)}}
    ELSE {[VISTORIADOR |-> v,
           DIAS_PASSADOS |-> Cardinality({r.DATA : r \in {x \in masked : x.VISTORIADOR = v}})] :
            v \in {r.VISTORIADOR : r \in masked}}

\* grp.merge(wd_passados, how="left") and fillna(0)
DIAS_PASSADOS_of(wd_passados, v) ==
    IF \E w \in wd_passados : w.VISTORIADOR = v
    THEN (CHOOSE w \in wd_passados : w.VISTORIADOR = v).DIAS_PASSADOS
    ELSE 0

sMOVEL == <<"M", "O", "V", "E", "L">>
sMOVEL_acento == <<"M", "O'", "V", "E", "L">>
sFIXO == <<"F", "I", "X", "O">>

replace_MOVEL(t) == IF t = sMOVEL THEN sMOVEL_acento ELSE t

\* metas_use: the goal columns, standardized again
metas_use_of(df_metas) ==
    [i \in 1..Len(df_metas) |->
        LET m == df_metas[i] IN
        [VISTORIADOR |-> strip(upper(m.VISTORIADOR)),
         UNIDADE     |-> strip(upper(m.UNIDADE)),
         TIPO        |-> replace_MOVEL(upper(m.TIPO)),
         META_MENSAL |-> m.META_MENSAL,
         DIAS_UTEIS  |-> m.DIAS_UTEIS]]

NoMeta == [UNIDADE |-> <<>>, TIPO |-> <<>>, META_MENSAL |-> 0, DIAS_UTEIS |-> 0]

\* the goal rows joined to one grp row: every METAS row of that VISTORIADOR,
\* in METAS order, or one row of defaults when there is none
matches_of(g, metas_use) ==
    LET ms == SelectSeq(metas_use, LAMBDA m : m.VISTORIADOR = g.VISTORIADOR) IN
    IF ms = <<>> THEN <<NoMeta>>
    ELSE [i \in 1..Len(ms) |->
            [UNIDADE |-> ms[i].UNIDADE, TIPO |-> ms[i].TIPO,
             META_MENSAL |-> ms[i].META_MENSAL, DIAS_UTEIS |-> ms[i].DIAS_UTEIS]]

\* numbers that are not integers are fractions num/den with den > 0
Frac(n, d) == [num |-> n, den |-> d]
Zero == Frac(0, 1)
NaNumber == [num |-> 0, den |-> 0]
isna(x) == x.den = 0

\* a difference that is not cut at 0
max0_sem_corte(x) == x

\* np.maximum(x, 0)
max0(x) == IF x > 0 THEN x ELSE 0

\* round half to even of p/q, p >= 0, q > 0
round0(p, q) ==
    LET f == p \div q
        r == p % q
    IN  IF 2 * r < q THEN f
        ELSE IF 2 * r > q THEN f + 1
        ELSE IF f % 2 = 0 THEN f ELSE f + 1

TENDENCIA_of(projecao, meta_mensal) ==
    IF meta_mensal > 0 THEN Frac(projecao * 100, meta_mensal) ELSE NaNumber

\* an average that takes the whole production as one day's when no workday passed
MEDIA_sem_dias(liquido, dias_passados) ==
    IF dias_passados > 0 THEN Frac(liquido, dias_passados) ELSE Frac(liquido, 1)

\* grp["MEDIA_DIA_ATUAL"] = np.where(DIAS_PASSADOS > 0, LIQUIDO / DIAS_PASSADOS, 0.0)
MEDIA_DIA_ATUAL_of(liquido, dias_passados) ==
    IF dias_passados > 0 THEN Frac(liquido, dias_passados) ELSE Zero

\* one row of grp after the goal join and the projection columns
calc_row(g, dias_passados, m) ==
    LET faltante == max0(m.META_MENSAL - g.LIQUIDO)
        restantes == max0(m.DIAS_UTEIS - dias_passados)
        media == MEDIA_DIA_ATUAL_of(g.LIQUIDO, dias_passados)
        projecao == round0(g.LIQUIDO * media.den + media.num * restantes, media.den)
    IN  [VISTORIADOR     |-> g.VISTORIADOR,
         VISTORIAS       |-> g.VISTORIAS,
         REVISTORIAS     |-> g.REVISTORIAS,
         DIAS_ATIVOS     |-> g.DIAS_ATIVOS,
         UNIDADES        |-> g.UNIDADES,
         LIQUIDO         |-> g.LIQUIDO,
         DIAS_PASSADOS   |-> dias_passados,
         UNIDADE         |-> m.UNIDADE,
         TIPO            |-> m.TIPO,
         META_MENSAL     |-> m.META_MENSAL,
         DIAS_UTEIS      |-> m.DIAS_UTEIS,
         META_DIA        |-> IF m.DIAS_UTEIS > 0
                             THEN Frac(m.META_MENSAL, m.DIAS_UTEIS) ELSE Zero,
         FALTANTE_MES    |-> faltante,
         DIAS_RESTANTES  |-> restantes,
         NECESSIDADE_DIA |-> IF restantes > 0 THEN Frac(faltante, restantes) ELSE Zero,
         MEDIA_DIA_ATUAL |-> media,
         PROJECAO_MES    |-> projecao,
         TENDENCIA       |-> TENDENCIA_of(projecao, m.META_MENSAL)]

\* grp.merge(metas_use, on="VISTORIADOR", how="left") and the columns after it;
\* without a METAS table every row gets the defaults
RECURSIVE junta_METAS(_, _, _, _)
junta_METAS(grp, k, wd_passados, metas_use) ==
    IF k > Len(grp) THEN <<>>
    ELSE LET g  == grp[k]
             dp == DIAS_PASSADOS_of(wd_passados, g.VISTORIADOR)
             ms == IF metas_use = <<>> THEN <<NoMeta>> ELSE matches_of(g, metas_use)
         IN  [i \in 1..Len(ms) |-> calc_row(g, dp, ms[i])]
                \o junta_METAS(grp, k + 1, wd_passados, metas_use)

\* sort_values(["PROJECAO_MES","LIQUIDO"], ascending=[False, False])
ordem_lt(a, b) ==
    \/ a.PROJECAO_MES > b.PROJECAO_MES
    \/ a.PROJECAO_MES = b.PROJECAO_MES /\ a.LIQUIDO > b.LIQUIDO

RECURSIVE insert_by_ordem(_, _)
insert_by_ordem(s, x) ==
    IF s = <<>> THEN <<x>>
    ELSE IF ordem_lt(x, Head(s)) THEN <<x>> \o s
    ELSE <<Head(s)>> \o insert_by_ordem(Tail(s), x)

RECURSIVE ordenacao(_, _)
ordenacao(grp, n) ==
    IF n = 0 THEN <<>> ELSE insert_by_ordem(ordenacao(grp, n - 1), grp[n])

resumo_grp(view, df_metas) ==
    LET g == junta_METAS(groupby_VISTORIADOR(view), 1, _calc_wd_passados(view),
                         metas_use_of(df_metas))
    IN  ordenacao(g, Len(g))

\* fmt[cols_show] asks for the column UNIDADE, which grp has only after a goal join
cols_show_ok(grp, df_metas) == grp = <<>> \/ df_metas # <<>>

-----------------------------------------------------------------------------
(* Consolidado do Mes: the ranking of one TIPO *)

ATING_of(vistorias, meta_mensal) ==
    IF meta_mensal > 0 THEN Frac(vistorias * 100, meta_mensal) ELSE NaNumber

\* a < b for two numbers that are not null
frac_lt(a, b) == a.num * b.den < b.num * a.den

ATING_lt(a, b) ==
    frac_lt(ATING_of(a.VISTORIAS, a.META_MENSAL), ATING_of(b.VISTORIAS, b.META_MENSAL))

\* sort_values("ATING_%", ascending=asc), built by insertion
RECURSIVE insert_by_ating(_, _, _)
insert_by_ating(s, x, asc) ==
    IF s = <<>> THEN <<x>>
    ELSE IF (IF asc THEN ATING_lt(x, Head(s)) ELSE ATING_lt(Head(s), x)) THEN <<x>> \o s
    ELSE <<Head(s)>> \o insert_by_ating(Tail(s), x, asc)

RECURSIVE sort_by_ating(_, _, _)
sort_by_ating(df, n, asc) ==
    IF n = 0 THEN <<>> ELSE insert_by_ating(sort_by_ating(df, n - 1, asc), df[n], asc)

TopN == 5

df_head(df, n) == SubSeq(df, 1, IF Len(df) < n THEN Len(df) ELSE n)

\* a bottom list that is cut from the head of the ranking
df_tail_do_topo(df, n) == SubSeq(df, 1, IF Len(df) < n THEN Len(df) ELSE n)

df_tail(df, n) == SubSeq(df, (IF Len(df) < n THEN 0 ELSE Len(df) - n) + 1, Len(df))

NoRanking == [caption |-> "", top |-> <<>>, bot |-> <<>>]

render_ranking(df_sub) ==
    IF Len(df_sub) = 0 THEN [NoRanking EXCEPT !.caption = "Sem dados"]
    ELSE LET rk == SelectSeq(df_sub, LAMBDA r : r.META_MENSAL > 0) IN
         IF Len(rk) = 0 THEN [NoRanking EXCEPT !.caption = "Ninguem com META cadastrada"]
         ELSE LET rk_sorted == sort_by_ating(rk, Len(rk), FALSE)
                  tl == df_tail(rk_sorted, TopN)
              IN  [caption |-> "",
                   top |-> df_head(rk_sorted, TopN),
                   bot |-> sort_by_ating(tl, Len(tl), TRUE)]

-----------------------------------------------------------------------------
(* Ranking do Dia: the day shown *)

dates_avail_of(view) == {r.DATA : r \in {x \in Range(view) : isdate(x.DATA)}}

\* a resolution that always falls back to the latest day with records
used_day_latest(dates_avail, rank_day) ==
    IF rank_day \in dates_avail THEN rank_day ELSE Max(dates_avail)

\* used_day: the chosen day, else the latest day with records up to it, else the
\* latest day with records
used_day_of(dates_avail, rank_day) ==
    IF rank_day \in dates_avail THEN rank_day
    ELSE LET cands == {d \in dates_avail : d <= rank_day} IN
         IF cands # {} THEN Max(cands) ELSE Max(dates_avail)

info_msg_of(dates_avail, rank_day) == rank_day \notin dates_avail

-----------------------------------------------------------------------------
(* One run of the script *)

NoOut ==
    [status |-> "none", erros |-> {}, sheet_ids_usados |-> <<>>, df |-> <<>>,
     df_metas |-> <<>>, view |-> <<>>, grp |-> <<>>, resumo |-> FALSE,
     rank_widget |-> FALSE, rank_day |-> NaT, used_day |-> NaT, info_msg |-> FALSE,
     df_sub |-> <<>>, ranking |-> NoRanking]

\* st.stop(): nothing below the stop is computed or rendered
Stopped(status, erro) == [NoOut EXCEPT !.status = status, !.erros = {erro}]

\* a ranking that stores the day shown in place of the day chosen
ranking_guarda_usado(ss1, base, avail, rank_day) ==
    [ss  |-> ss_set(ss1, "rank_day_sel", used_day_of(avail, rank_day)),
     out |-> [base EXCEPT !.rank_widget = TRUE, !.rank_day = rank_day,
                          !.used_day = used_day_of(avail, rank_day),
                          !.info_msg = info_msg_of(avail, rank_day)]]

\* "Ranking do Dia": the date_input keeps its value in rank_day_sel
ranking_do_dia(ss1, base, avail, rank_day) ==
    [ss  |-> ss_set(ss1, "rank_day_sel", rank_day),
     out |-> [base EXCEPT !.rank_widget = TRUE, !.rank_day = rank_day,
                          !.used_day = used_day_of(avail, rank_day),
                          !.info_msg = info_msg_of(avail, rank_day)]]

\* the sections below the resumo table
abaixo_do_resumo(ss1, base, avail) ==
    IF avail = {} THEN [ss |-> ss1, out |-> base]
    ELSE ranking_do_dia(ss1, base, avail, ss_get(ss1, "rank_day_sel", Max(avail)))

\* the resumo table: without the column UNIDADE the run ends in a KeyError
mostra_resumo(ld, ss1, base) ==
    IF ~cols_show_ok(base.grp, ld.df_metas)
    THEN [ss |-> ss1, out |-> [base EXCEPT !.status = "exception"]]
    ELSE abaixo_do_resumo(ss1,
            [base EXCEPT !.status = "ok", !.resumo = (base.grp # <<>>)],
            dates_avail_of(base.view))

com_view(ld, df, ss1, view) ==
    mostra_resumo(ld, ss1,
        [NoOut EXCEPT !.sheet_ids_usados = ld.sheet_ids_usados, !.df = df,
                      !.df_metas = ld.df_metas, !.view = view,
                      !.grp = resumo_grp(view, ld.df_metas)])

com_filtros(ld, df, ss1) == com_view(ld, df, ss1, apply_filters(df, ss1))

com_df(ld, ss, df) ==
    com_filtros(ld, df, _init_state(reset_if_changed(ss, df, ld.sheet_ids_usados)))

\* the part of the run from "Limpeza e padronizacao" on
render(ld, ss) == com_df(ld, ss, classificar(ld.df_raw, ld.cols))

carregado(ld, ss) ==
    IF ld.stopped
    THEN [ss |-> ss, out |-> Stopped("stop", "Nao consegui ler a planilha.")]
    ELSE IF ld.df_raw = <<>>
    THEN [ss |-> ss, out |-> Stopped("stop", "nao retornaram linhas")]
    ELSE IF ~required_ok(ld.cols)
    THEN [ss |-> ss, out |-> Stopped("stop", "precisam conter as colunas")]
    ELSE render(ld, ss)

pass(arqs, esc, ss) == carregado(load(arqs, esc), ss)

Commit(esc, p) ==
    /\ escolha' = esc
    /\ session_state' = p.ss
    /\ out' = p.out
    /\ UNCHANGED arquivos

Run(esc, ss) == Commit(esc, pass(arquivos, esc, ss))

-----------------------------------------------------------------------------
(* The user's actions; each one triggers a run *)

Calendar == {20240429, 20240430, 20240503, 20240504}

\* the filter widgets were rendered by the last pass
filtros_renderizados == out.status \in {"ok", "exception"}

\* the page is opened or reloaded ("Atualizar dados")
Rerun == Run(escolha, session_state)

\* st.selectbox("Arquivo (mes) da pasta")
SelectSource ==
    \E e \in 0..Len(arquivos) : e # escolha /\ Run(e, session_state)

\* st.multiselect("Unidades", key="unids_tmp")
SetUnids ==
    /\ filtros_renderizados
    /\ \E S \in SUBSET unidades_opts(out.df) :
        S # session_state["unids_tmp"] /\ Run(escolha, ss_set(session_state, "unids_tmp", S))

cb_sel_all_unids ==
    /\ filtros_renderizados
    /\ Run(escolha, ss_set(session_state, "unids_tmp", unidades_opts(out.df)))

cb_clear_unids ==
    /\ filtros_renderizados
    /\ Run(escolha, ss_set(session_state, "unids_tmp", {}))

\* st.multiselect("Vistoriadores", key="vists_tmp")
SetVists ==
    /\ filtros_renderizados
    /\ \E S \in SUBSET vist_opts(out.df) :
        S # session_state["vists_tmp"] /\ Run(escolha, ss_set(session_state, "vists_tmp", S))

cb_sel_all_vists ==
    /\ filtros_renderizados
    /\ Run(escolha, ss_set(session_state, "vists_tmp", vist_opts(out.df)))

cb_clear_vists ==
    /\ filtros_renderizados
    /\ Run(escolha, ss_set(session_state, "vists_tmp", {}))

\* st.date_input("Data inicial", key="dt_ini")
SetDtIni ==
    /\ filtros_renderizados
    /\ \E d \in Calendar :
        d # session_state["dt_ini"] /\ Run(escolha, ss_set(session_state, "dt_ini", d))

\* st.date_input("Data final", key="dt_fim")
SetDtFim ==
    /\ filtros_renderizados
    /\ \E d \in Calendar :
        d # session_state["dt_fim"] /\ Run(escolha, ss_set(session_state, "dt_fim", d))

\* st.date_input("Dia para o ranking", key="rank_day_sel")
SetRankDay ==
    /\ out.rank_widget
    /\ \E d \in Calendar :
        d # session_state["rank_day_sel"]
            /\ Run(escolha, ss_set(session_state, "rank_day_sel", d))

-----------------------------------------------------------------------------
(* The folders the model starts from *)

sU1 == <<"u", "1", " ">>
sU2 == <<"U", "2">>
sCodigo == <<" ", "c", "o", "d", "i", "g", "o">>
sA1 == <<"a", "1">>
sB2 == <<"B", "2">>
sJoao == <<"j", "o", "a", "o">>
sAna == <<"A", "N", "A", " ">>
sBlank == <<" ">>

Cell(fmt, day) == [fmt |-> fmt, day |-> day]

Row(unidade, data, chassi, perito, digitador) ==
    [UNIDADE |-> unidade, DATA |-> data, CHASSI |-> chassi,
     PERITO |-> perito, DIGITADOR |-> digitador]

Num(v) == [num |-> TRUE, val |-> v]
NotNum == [num |-> FALSE, val |-> 0]

Meta(vistoriador, unidade, tipo, meta_mensal, dias_uteis) ==
    [VISTORIADOR |-> vistoriador, UNIDADE |-> unidade, TIPO |-> tipo,
     META_MENSAL |-> meta_mensal, DIAS_UTEIS |-> dias_uteis]

Sheet(id, name, fetch_ok, cols, rows, metas) ==
    [id |-> id, name |-> name, fetch_ok |-> fetch_ok, cols |-> cols,
     rows |-> rows, metas |-> metas]

\* the sequences over S of length at most n
SeqsUpTo(S, n) == UNION {[1..k -> S] : k \in 0..n}

\* the session worlds: the May sheet varies, the April sheet is fixed
MayRows ==
    {Row(sU1, Cell("%d/%m/%Y", 20240503), sA1, sJoao, sAna),
     Row(sU2, Cell("%Y-%m-%d", 20240504), sB2, sBlank, sAna)}

AprilRows ==
    <<Row(sU1, Cell("%d-%m-%Y", 20240429), sA1, sJoao, sAna),
      Row(sU2, Cell("%d/%m/%Y", 20240430), sB2, sAna, sJoao)>>

MayMetas == <<Meta(sJoao, sU1, sFIXO, Num(20), Num(20))>>

SessionWorlds ==
    {<<Sheet("S1", 202405, TRUE, Columns, rows, MayMetas),
       Sheet("S2", 202404, TRUE, Columns, AprilRows, <<>>)>> :
        rows \in SeqsUpTo(MayRows, MaxSessRows)}

EmptySession == [k \in {} |-> 0]

Init ==
    /\ arquivos \in SessionWorlds
    /\ escolha = 1
    /\ session_state = EmptySession
    /\ out = NoOut

Next ==
    \/ Rerun
    \/ SelectSource
    \/ SetUnids
    \/ cb_sel_all_unids
    \/ cb_clear_unids
    \/ SetVists
    \/ cb_sel_all_vists
    \/ cb_clear_vists
    \/ SetDtIni
    \/ SetDtFim
    \/ SetRankDay

Spec == Init /\ [][Next]_vars

-----------------------------------------------------------------------------
(* The record worlds: the rows of the May sheet vary over units (one of them *)
(* a banned placeholder), dates (a weekday, a Saturday, an empty cell),      *)
(* chassis and PERITO; and the load worlds: either sheet may lack a column   *)
(* or fail to open.                                                          *)

RecPool ==
    {Row(u, d, cp[1], cp[2], sAna) :
        u \in {sU1, sCodigo},
        d \in {Cell("%d/%m/%Y", 20240503), Cell("%Y-%m-%d", 20240504), EmptyDate},
        cp \in {<<sA1, sJoao>>, <<sA1, sBlank>>, <<sB2, sJoao>>}}

RecWorlds ==
    {<<Sheet("S1", 202405, TRUE, Columns, rows, MayMetas),
       Sheet("S2", 202404, TRUE, Columns, AprilRows, <<>>)>> :
        rows \in SeqsUpTo(RecPool, MaxRows)}

\* how a sheet can be faulty: it does not open, or it lacks required columns
Faults ==
    {[fetch_ok |-> TRUE, cols |-> Columns],
     [fetch_ok |-> FALSE, cols |-> Columns],
     [fetch_ok |-> TRUE, cols |-> Columns \ {"UNIDADE"}],
     [fetch_ok |-> TRUE, cols |-> Columns \ {"DATA"}],
     [fetch_ok |-> TRUE, cols |-> Columns \ {"CHASSI"}],
     [fetch_ok |-> TRUE, cols |-> Columns \ {"PERITO"}],
     [fetch_ok |-> TRUE, cols |-> Columns \ {"PERITO", "DIGITADOR"}]}

LoadWorlds ==
    {<<Sheet("S1", 202405, f1.fetch_ok, f1.cols, rows, MayMetas),
       Sheet("S2", 202404, f2.fetch_ok, f2.cols, AprilRows, <<>>)>> :
        rows \in SeqsUpTo(MayRows, MaxRows) \ {<<>>}, f1 \in Faults, f2 \in Faults}

InitRec ==
    /\ arquivos \in RecWorlds
    /\ escolha = 1
    /\ session_state = EmptySession
    /\ out = NoOut

NextRec ==
    \/ Rerun
    \/ SelectSource
    \/ SetUnids

SpecRec == InitRec /\ [][NextRec]_vars

InitLoad ==
    /\ arquivos \in LoadWorlds
    /\ escolha = 1
    /\ session_state = EmptySession
    /\ out = NoOut

NextLoad ==
    \/ Rerun
    \/ SelectSource

SpecLoad == InitLoad /\ [][NextLoad]_vars

-----------------------------------------------------------------------------
(* The goal worlds: the records are fixed, the METAS sheets vary *)

sMovel == <<"m", "o", "v", "e", "l">>
sFixo == <<"F", "i", "x", "o", " ">>

MayMetaPool ==
    {Meta(sJoao, sU1, sFixo, Num(20), Num(20)),
     Meta(sJoao, sU2, sFixo, Num(-5), Num(20)),
     Meta(sJoao, sU1, sMovel, NotNum, Num(2)),
     Meta(sAna, sU2, sMovel, Num(3), Num(2)),
     Meta(sAna, sU2, sMovel, Num(0), NotNum),
     Meta(sAna, sU1, sFixo, Num(20), Num(-1))}

AprilMetaPool ==
    {Meta(sJoao, sU1, sFixo, Num(10), Num(2)),
     Meta(sAna, sU2, sMovel, Num(1), Num(-1))}

MayRowsSeq ==
    <<Row(sU1, Cell("%d/%m/%Y", 20240503), sA1, sJoao, sAna),
      Row(sU2, Cell("%Y-%m-%d", 20240504), sB2, sBlank, sAna)>>

MetaWorlds ==
    {<<Sheet("S1", 202405, TRUE, Columns, MayRowsSeq, m1),
       Sheet("S2", 202404, TRUE, Columns, AprilRows, m2)>> :
        m1 \in SeqsUpTo(MayMetaPool, MaxMetas), m2 \in SeqsUpTo(AprilMetaPool, MaxMetas)}

InitMeta ==
    /\ arquivos \in MetaWorlds
    /\ escolha = 1
    /\ session_state = EmptySession
    /\ out = NoOut

NextMeta ==
    \/ Rerun
    \/ SelectSource
    \/ SetVists

SpecMeta == InitMeta /\ [][NextMeta]_vars

-----------------------------------------------------------------------------
(* The monthly ranking on its own: render_ranking applied to the rows of one TIPO *)

\* rows of base_mes: VISTORIAS of the month and the joined META_MENSAL
RankPool ==
    {[VISTORIADOR |-> <<"A">>, VISTORIAS |-> 1, META_MENSAL |-> 0],
     [VISTORIADOR |-> <<"B">>, VISTORIAS |-> 1, META_MENSAL |-> 2],
     [VISTORIADOR |-> <<"C">>, VISTORIAS |-> 2, META_MENSAL |-> 2],
     [VISTORIADOR |-> <<"D">>, VISTORIAS |-> 3, META_MENSAL |-> 1]}

\* the ranking of the rows drawn for this behaviour
RenderRanking ==
    /\ out.status = "none"
    /\ out' = [out EXCEPT !.status = "ranking", !.ranking = render_ranking(out.df_sub)]
    /\ UNCHANGED <<arquivos, escolha, session_state>>

InitRank ==
    /\ arquivos = <<>>
    /\ escolha = 1
    /\ session_state = EmptySession
    /\ \E df_sub \in SeqsUpTo(RankPool, MaxRank) : out = [NoOut EXCEPT !.df_sub = df_sub]

NextRank == RenderRanking

SpecRank == InitRank /\ [][NextRank]_vars

-----------------------------------------------------------------------------
(* Properties *)

rendered == out.status \in {"ok", "exception"}

\* a comes no later than b in the classification order of one chassis: by date,
\* the null dates last, ties by the place in df_raw
first_or_same(a, b) ==
    IF a.DATA = b.DATA THEN a.idx <= b.idx
    ELSE IF a.DATA = NaT THEN FALSE
    ELSE IF b.DATA = NaT THEN TRUE
    ELSE a.DATA < b.DATA

\* C1: in df as the filters see it, every CHASSI present has exactly one record
\* with IS_REV = 0, the earliest by date (ties by insertion order), and every
\* other record of that CHASSI has IS_REV = 1.
C1_OneFirstPerChassi ==
    \A c \in {r.CHASSI : r \in Range(out.df)} :
        LET rs == {r \in Range(out.df) : r.CHASSI = c} IN
        /\ Cardinality({r \in rs : r.IS_REV = 0}) = 1
        /\ \A r \in rs : r.IS_REV = 0 <=> (\A q \in rs : first_or_same(r, q))

\* the month of the sheet a goal row was read from
sheet_month(src_id) ==
    arquivos[CHOOSE i \in 1..Len(arquivos) : arquivos[i].id = src_id].name

\* the latest month in which v has records in the view (0 when none is dated)
latest_month(view, v) ==
    LET ms == {month_of(r.DATA) : r \in {x \in Range(view) : x.VISTORIADOR = v /\ isdate(x.DATA)}}
    IN  IF ms = {} THEN 0 ELSE Max(ms)

goal_fields(r) ==
    [TIPO |-> r.TIPO, META_MENSAL |-> r.META_MENSAL, DIAS_UTEIS |-> r.DIAS_UTEIS]

\* C2: the goal on an inspector's summary row is the goal row of the latest month
\* in which the inspector has records in the view (the defaults when that month
\* has no goal row for the inspector), never the goal of another month.
C2_GoalOfLatestMonth ==
    \A k \in 1..Len(out.grp) :
        LET r  == out.grp[k]
            m  == latest_month(out.view, r.VISTORIADOR)
            gs == {g \in Range(metas_use_of(out.df_metas)) : g.VISTORIADOR = r.VISTORIADOR}
            of_month == {i \in 1..Len(out.df_metas) :
                            /\ metas_use_of(out.df_metas)[i].VISTORIADOR = r.VISTORIADOR
                            /\ sheet_month(out.df_metas[i].SRC_ID) = m}
        IN  m # 0 =>
                IF of_month = {}
                THEN goal_fields(r) = goal_fields(NoMeta)
                ELSE \E i \in of_month :
                        goal_fields(r) = goal_fields(metas_use_of(out.df_metas)[i])

\* C3: the resumo table has exactly one row per inspector of the filtered view,
\* whatever the goal table holds.
C3_OneRowPerInspector ==
    out.resumo =>
        \A v \in {r.VISTORIADOR : r \in Range(out.view)} :
            Cardinality({k \in 1..Len(out.grp) : out.grp[k].VISTORIADOR = v}) = 1

\* C4: on every summary row LIQUIDO = VISTORIAS - REVISTORIAS, and it is the number
\* of records of that inspector in the filtered view that are no re-inspection.
C4_NetIsFirstInspections ==
    \A k \in 1..Len(out.grp) :
        LET r == out.grp[k] IN
        /\ r.LIQUIDO = r.VISTORIAS - r.REVISTORIAS
        /\ r.LIQUIDO = Cardinality({x \in Range(out.view) :
                                        x.VISTORIADOR = r.VISTORIADOR /\ x.IS_REV = 0})

\* a filtered view that keeps only part of an inspector's records, some of them
\* re-inspections and some not
C4_Witness ==
    /\ Len(out.view) < Len(out.df)
    /\ \E k \in 1..Len(out.grp) : out.grp[k].REVISTORIAS >= 1 /\ out.grp[k].LIQUIDO >= 1

faulty(a) == ~required_ok(a.cols)

\* C5: when all sheets are joined, a sheet that lacks a required column is skipped
\* with a schema error, none of its rows enter the record set, and the other
\* sheets are still aggregated.
C5_FaultySheetSkipped ==
    (/\ out.status # "none"
     /\ escolha = 0
     /\ \A i \in 1..Len(arquivos) : arquivos[i].fetch_ok
     /\ \E i \in 1..Len(arquivos) : faulty(arquivos[i])
     /\ \E i \in 1..Len(arquivos) : ~faulty(arquivos[i]))
    => /\ rendered
       /\ "precisam conter as colunas" \in out.erros
       /\ \A i \in 1..Len(arquivos) :
            faulty(arquivos[i]) => \A r \in Range(out.df) : r.SRC_ID # arquivos[i].id
       /\ \A i \in 1..Len(arquivos) :
            ~faulty(arquivos[i]) => arquivos[i].id \in Range(out.sheet_ids_usados)

\* C6: when all sheets are joined and one of them cannot be opened, the pass goes
\* on with the others, aggregates them and reports the failure.
C6_FetchFailureIsLocal ==
    (/\ out.status # "none"
     /\ escolha = 0
     /\ \E i \in 1..Len(arquivos) : ~arquivos[i].fetch_ok
     /\ \E i \in 1..Len(arquivos) : arquivos[i].fetch_ok /\ ~faulty(arquivos[i]))
    => /\ rendered
       /\ "Nao consegui ler a planilha." \in out.erros
       /\ \A i \in 1..Len(arquivos) :
            (arquivos[i].fetch_ok /\ ~faulty(arquivos[i]))
                => arquivos[i].id \in Range(out.sheet_ids_usados)

\* the step is a pass rendered to the end, after a pass rendered to the end, that
\* found the source-set token changed
token_changed ==
    /\ out.status = "ok"
    /\ out'.status = "ok"
    /\ ss_get(session_state, "__data_token__", None) # token_of(out'.sheet_ids_usados)

in_data_range(df, d) ==
    datas_validas(df) # {} => (d >= Min(datas_validas(df)) /\ d <= Max(datas_validas(df)))

\* C7: a pass that finds the source-set token changed leaves every part of the
\* selection valid for the new data: the units and inspectors among the options,
\* the date range and the ranking day within the dates of the data.
C7_SelectionRevalidated ==
    [][token_changed =>
        /\ session_state'["unids_tmp"] \subseteq unidades_opts(out'.df)
        /\ session_state'["vists_tmp"] \subseteq vist_opts(out'.df)
        /\ in_data_range(out'.df, session_state'["dt_ini"])
        /\ in_data_range(out'.df, session_state'["dt_fim"])
        /\ ("rank_day_sel" \in DOMAIN session_state'
                => in_data_range(out'.df, session_state'["rank_day_sel"]))]_vars

\* C8: the day shown by the daily ranking is the chosen day when it has records,
\* otherwise the latest day with records up to the chosen day, otherwise the
\* latest day with records; it always has records, and the notice is shown
\* exactly when it differs from the chosen day.
C8_RankDayResolution ==
    out.rank_widget =>
        LET avail  == dates_avail_of(out.view)
            before == {d \in avail : d <= out.rank_day}
        IN  /\ out.used_day \in avail
            /\ out.rank_day \in avail => out.used_day = out.rank_day
            /\ (out.rank_day \notin avail /\ before # {})
                    => (out.used_day \in before /\ \A d \in before : d <= out.used_day)
            /\ (out.rank_day \notin avail /\ before = {})
                    => \A d \in avail : d <= out.used_day
            /\ out.info_msg <=> (out.used_day # out.rank_day)

\* the chosen day has no records, and days with records lie on both sides of it
C8_Witness ==
    /\ out.rank_widget
    /\ out.info_msg
    /\ out.used_day < out.rank_day
    /\ \E d \in dates_avail_of(out.view) : d > out.rank_day

\* C9: on every summary row TENDENCIA_% is null exactly when the joined
\* META_MENSAL is 0.
C9_NullIffGoalZero ==
    \A k \in 1..Len(out.grp) :
        isna(out.grp[k].TENDENCIA) <=> (out.grp[k].META_MENSAL = 0)

\* C10: in the goal table the aggregation uses, every row's META_MENSAL and
\* DIAS_UTEIS are integers >= 0: no negative value survives the coercion.
C10_GoalsNonNegative ==
    \A i \in 1..Len(out.df_metas) :
        /\ out.df_metas[i].META_MENSAL >= 0
        /\ out.df_metas[i].DIAS_UTEIS >= 0

\* the cells of the sheet that the record of df came from (NaN where the sheet
\* has no such column)
raw_of(r) == load(arquivos, escolha).df_raw[r.idx]

nonblank(x) == x # NaN /\ strip(x) # <<>>

\* C11: the VISTORIADOR of a record is PERITO when it is non-blank, otherwise
\* DIGITADOR, upper-cased and trimmed; so it is non-empty whenever one of the two
\* cells is non-blank, also for records of a joined sheet without the column PERITO
\* (every sheet opens and has the required columns).
C11_InspectorDerived ==
    (\A i \in 1..Len(arquivos) : arquivos[i].fetch_ok /\ ~faulty(arquivos[i])) =>
    \A r \in Range(out.df) :
        LET p == raw_of(r).PERITO
            d == raw_of(r).DIGITADOR
        IN  /\ r.VISTORIADOR = IF nonblank(p) THEN strip(upper(p))
                               ELSE IF nonblank(d) THEN strip(upper(d))
                               ELSE <<>>
            /\ (nonblank(p) \/ nonblank(d)) => r.VISTORIADOR # <<>>

\* the filter selection is the one a reset establishes for df: every unit, no
\* inspector restriction, the date range from the first to the last date of df
reset_state ==
    /\ out.status = "ok"
    /\ session_state["unids_tmp"] = unidades_opts(out.df)
    /\ session_state["vists_tmp"] = {}
    /\ datas_validas(out.df) # {}
    /\ session_state["dt_ini"] = Min(datas_validas(out.df))
    /\ session_state["dt_fim"] = Max(datas_validas(out.df))

\* C12: a record with an empty or unreadable DATA gets a null date and stays in df;
\* under the selection a reset establishes it counts in its inspector's VISTORIAS,
\* REVISTORIAS and LIQUIDO, and only DIAS_ATIVOS and DIAS_PASSADOS leave it out.
C12_NullDateRetained ==
    reset_state =>
        /\ \A r \in Range(out.df) :
            parse_date_any(raw_of(r).DATA) = NaT => r.DATA = NaT
        /\ \A v \in {r.VISTORIADOR : r \in Range(out.df)} :
            LET rs == {r \in Range(out.df) : r.VISTORIADOR = v} IN
            \E k \in 1..Len(out.grp) :
                /\ out.grp[k].VISTORIADOR = v
                /\ out.grp[k].VISTORIAS = Cardinality(rs)
                /\ out.grp[k].REVISTORIAS = Cardinality({r \in rs : r.IS_REV = 1})
                /\ out.grp[k].LIQUIDO = Cardinality({r \in rs : r.IS_REV = 0})
                /\ out.grp[k].DIAS_ATIVOS = Cardinality({r.DATA : r \in rs} \ {NaT})
                /\ out.grp[k].DIAS_PASSADOS =
                        Cardinality({r.DATA : r \in {x \in rs : _is_workday(x.DATA)}})

\* C13: on every summary row with DIAS_PASSADOS = 0, PROJECAO_MES equals LIQUIDO,
\* whatever META_MENSAL and DIAS_UTEIS the goal join brought.
C13_ProjectionWithoutWorkdays ==
    \A k \in 1..Len(out.grp) :
        out.grp[k].DIAS_PASSADOS = 0 => out.grp[k].PROJECAO_MES = out.grp[k].LIQUIDO

\* an inspector who worked on a Saturday only, with a goal and workdays left
C13_Witness ==
    \E k \in 1..Len(out.grp) :
        /\ out.grp[k].DIAS_PASSADOS = 0
        /\ out.grp[k].LIQUIDO >= 1
        /\ out.grp[k].META_MENSAL > 0
        /\ out.grp[k].DIAS_RESTANTES >= 1

\* C14: the monthly ranking of one TIPO ranks only the rows with META_MENSAL > 0,
\* by VISTORIAS / META_MENSAL * 100; top holds the min(5, n) highest in descending
\* order, bottom the min(5, n) lowest in ascending order, and with fewer than 5
\* rows both hold all n rows.
C14_MonthlyRanking ==
    out.status = "ranking" =>
        LET sub == out.df_sub
            top == out.ranking.top
            bot == out.ranking.bot
            pct(r) == ATING_of(r.VISTORIAS, r.META_MENSAL)
            count(s, P(_)) == Cardinality({i \in 1..Len(s) : P(s[i])})
            ranked(r) == r.META_MENSAL > 0
            n == count(sub, ranked)
            k == IF n < 5 THEN n ELSE 5
            atmost(a, b) == IF a < b THEN a ELSE b
        IN  /\ Len(top) = k
            /\ Len(bot) = k
            /\ \A i \in 1..k : ranked(top[i]) /\ ranked(bot[i])
            /\ \A i, j \in 1..k : i < j => ~frac_lt(pct(top[i]), pct(top[j]))
            /\ \A i, j \in 1..k : i < j => ~frac_lt(pct(bot[j]), pct(bot[i]))
            /\ \A x \in {r \in Range(sub) : ranked(r)} :
                LET above(r) == ranked(r) /\ frac_lt(pct(x), pct(r))
                    below(r) == ranked(r) /\ frac_lt(pct(r), pct(x))
                    same(r)  == r = x
                IN  /\ count(top, above) = atmost(5, count(sub, above))
                    /\ count(bot, below) = atmost(5, count(sub, below))
                    /\ count(top, same) <= count(sub, same)
                    /\ count(bot, same) <= count(sub, same)
                    /\ n < 5 => /\ count(top, same) = count(sub, same)
                                /\ count(bot, same) = count(sub, same)

\* more than five ranked rows with three different percentages, and a row without
\* a goal among them
C14_Witness ==
    /\ out.status = "ranking"
    /\ Cardinality({i \in 1..Len(out.df_sub) : out.df_sub[i].META_MENSAL > 0}) > 5
    /\ \E i \in 1..Len(out.df_sub) : out.df_sub[i].META_MENSAL = 0
    /\ Cardinality({out.ranking.top[i].VISTORIADOR : i \in 1..Len(out.ranking.top)}) = 3
    /\ out.ranking.top[1] # out.ranking.bot[Len(out.ranking.bot)]

\* C15: every inspector of the view has a summary row, and its DIAS_PASSADOS is the
\* number of distinct Monday-to-Friday dates among the inspector's records in the
\* view: 0 when all of them fall on a weekend, never a missing value or row.
C15_WorkdaysElapsed ==
    \A v \in {r.VISTORIADOR : r \in Range(out.view)} :
        /\ \E k \in 1..Len(out.grp) : out.grp[k].VISTORIADOR = v
        /\ \A k \in 1..Len(out.grp) :
            out.grp[k].VISTORIADOR = v =>
                out.grp[k].DIAS_PASSADOS =
                    Cardinality({r.DATA : r \in {x \in Range(out.view) :
                        x.VISTORIADOR = v /\ x.DATA # NaT /\ weekday(x.DATA) \in 0..4}})

\* one inspector with records on a Saturday only beside one with a workday
C15_Witness ==
    /\ \E k \in 1..Len(out.grp) :
            out.grp[k].DIAS_PASSADOS = 0 /\ out.grp[k].DIAS_ATIVOS >= 1
    /\ \E k \in 1..Len(out.grp) : out.grp[k].DIAS_PASSADOS >= 1

\* C16: no record of df has a unit of the banned set, whatever the casing and the
\* surrounding blanks of the unit as written in the sheet.
C16_NoBannedUnit ==
    \A r \in Range(out.df) :
        /\ r.UNIDADE \notin BAN_UNIDS
        /\ raw_of(r).UNIDADE # NaN => strip(upper(raw_of(r).UNIDADE)) \notin BAN_UNIDS

\* a sheet with a record at " codigo" beside records that stay in df
C16_Witness ==
    /\ out.status = "ok"
    /\ Len(out.df) >= 1
    /\ \E i \in 1..Len(load(arquivos, escolha).df_raw) :
            load(arquivos, escolha).df_raw[i].UNIDADE = sCodigo

\* C17: a pass run again with the same source, the same sheets and no user action
\* in between leaves session_state unchanged and renders the same view and the
\* same summary rows as the pass before it.
C17_RerunIdempotent ==
    out.status # "none" =>
        LET p == pass(arquivos, escolha, session_state)
        IN  /\ p.ss = session_state
            /\ p.out.view = out.view
            /\ p.out.grp = out.grp
            /\ p.out = out

\* a rendered pass under a selection the user narrowed, which a second pass repeats
C17_Witness ==
    /\ out.status = "ok"
    /\ session_state["vists_tmp"] # {}
    /\ session_state["unids_tmp"] # unidades_opts(out.df)
    /\ Len(out.view) >= 1
    /\ Len(out.view) < Len(out.df)
    /\ pass(arquivos, escolha, session_state) = [ss |-> session_state, out |-> out]

\* C18: on every summary row FALTANTE_MES = max(META_MENSAL - LIQUIDO, 0) and
\* DIAS_RESTANTES = max(DIAS_UTEIS - DIAS_PASSADOS, 0) are never negative, and
\* META_DIA, NECESSIDADE_DIA and MEDIA_DIA_ATUAL are the quotients META_MENSAL /
\* DIAS_UTEIS, FALTANTE_MES / DIAS_RESTANTES and LIQUIDO / DIAS_PASSADOS when the
\* divisor is positive, and 0 when it is 0.
C18_GoalArithmetic ==
    \A k \in 1..Len(out.grp) :
        LET r == out.grp[k]
            quotient(x, n, d) ==
                /\ x.den > 0
                /\ d > 0 => x.num * d = n * x.den
                /\ d = 0 => x.num = 0
        IN  /\ r.FALTANTE_MES >= 0
            /\ r.FALTANTE_MES >= r.META_MENSAL - r.LIQUIDO
            /\ r.FALTANTE_MES \in {0, r.META_MENSAL - r.LIQUIDO}
            /\ r.DIAS_RESTANTES >= 0
            /\ r.DIAS_RESTANTES >= r.DIAS_UTEIS - r.DIAS_PASSADOS
            /\ r.DIAS_RESTANTES \in {0, r.DIAS_UTEIS - r.DIAS_PASSADOS}
            /\ quotient(r.META_DIA, r.META_MENSAL, r.DIAS_UTEIS)
            /\ quotient(r.NECESSIDADE_DIA, r.FALTANTE_MES, r.DIAS_RESTANTES)
            /\ quotient(r.MEDIA_DIA_ATUAL, r.LIQUIDO, r.DIAS_PASSADOS)

\* one row with every divisor positive beside one row with every divisor 0 and
\* a production above its goal
C18_Witness ==
    /\ \E k \in 1..Len(out.grp) :
            /\ out.grp[k].DIAS_UTEIS > 0
            /\ out.grp[k].DIAS_RESTANTES > 0
            /\ out.grp[k].DIAS_PASSADOS > 0
            /\ out.grp[k].FALTANTE_MES > 0
    /\ \E k \in 1..Len(out.grp) :
            /\ out.grp[k].DIAS_UTEIS = 0
            /\ out.grp[k].DIAS_RESTANTES = 0
            /\ out.grp[k].DIAS_PASSADOS = 0
            /\ out.grp[k].META_MENSAL < out.grp[k].LIQUIDO

\* C19 as stated: in the classification order the records with a null date come
\* before all dated records, so for a CHASSI with both the null-dated record is the
\* first occurrence and the dated ones are re-inspections.
C19_NullDatesFirst ==
    \A r, q \in Range(out.df) :
        (r.CHASSI = q.CHASSI /\ r.DATA = NaT /\ q.DATA # NaT)
            => (r.ORD < q.ORD /\ q.IS_REV = 1)

\* C19 amended: in the classification order the records with a null date come
\* after all dated records, so for a CHASSI with both every null-dated record is
\* counted as a re-inspection and never as the first occurrence.
C19_NullDatesLast ==
    \A r, q \in Range(out.df) :
        (r.CHASSI = q.CHASSI /\ r.DATA = NaT /\ q.DATA # NaT)
            => (q.ORD < r.ORD /\ r.IS_REV = 1)

\* a CHASSI with a null-dated record entered before a dated one
C19_Witness ==
    \E r, q \in Range(out.df) :
        r.CHASSI = q.CHASSI /\ r.DATA = NaT /\ q.DATA # NaT /\ r.idx < q.idx

\* C20: the filters are reset only when the source set changes. Whatever the user
\* does next, a pass that finds the stored token equal to the token of the sheets
\* it loaded leaves the units, the inspectors and the date range exactly as the
\* user handed them over; a pass that finds it different sets units = all units of
\* the data, inspectors = none, date range = first to last date of the data, and
\* stores the new token.
C20_ResetOnlyOnChange ==
    LET keys == {"unids_tmp", "vists_tmp", "dt_ini", "dt_fim"}
        widgets ==
            IF ~filtros_renderizados THEN {}
            ELSE {ss_set(session_state, "unids_tmp", S) : S \in SUBSET unidades_opts(out.df)}
                 \cup {ss_set(session_state, "vists_tmp", S) : S \in SUBSET vist_opts(out.df)}
                 \cup {ss_set(session_state, "dt_ini", d) : d \in Calendar}
                 \cup {ss_set(session_state, "dt_fim", d) : d \in Calendar}
        inputs == {<<e, session_state>> : e \in 0..Len(arquivos)}
                  \cup {<<escolha, ss>> : ss \in widgets}
    IN  \A i \in inputs :
            LET ss_in == i[2]
                p == pass(arquivos, i[1], ss_in)
                token == token_of(p.out.sheet_ids_usados)
                dv == datas_validas(p.out.df)
            IN  p.out.status \in {"ok", "exception"} =>
                    IF ss_get(ss_in, "__data_token__", None) = token
                    THEN \A k \in keys : p.ss[k] = ss_in[k]
                    ELSE /\ p.ss["unids_tmp"] = unidades_opts(p.out.df)
                         /\ p.ss["vists_tmp"] = {}
                         /\ dv # {} => (p.ss["dt_ini"] = Min(dv) /\ p.ss["dt_fim"] = Max(dv))
                         /\ p.ss["__data_token__"] = token

\* a pass that found its token stored and kept a selection the user had narrowed
\* in units, inspectors and dates
C20_Witness ==
    /\ out.status = "ok"
    /\ session_state["__data_token__"] = token_of(out.sheet_ids_usados)
    /\ session_state["vists_tmp"] # {}
    /\ session_state["unids_tmp"] \notin {{}, unidades_opts(out.df)}
    /\ session_state["dt_ini"] # Min(datas_validas(out.df))

====
